---- MODULE Spec2Model ----
(***************************************************************************)
(* The conversation client of assets/app.js as a state machine.  Every     *)
(* event handler the script registers is one action; the continuation of   *)
(* sendCommand after its awaits is the action Resolve.  A text is a        *)
(* sequence of tokens, so that trimming and the template literals of the   *)
(* script are computed and not assumed.                                    *)
(***************************************************************************)
EXTENDS Integers, Sequences, FiniteSets, TLC

VARIABLES
    history,        \* state.history
    isProcessing,   \* state.isProcessing
    recognition,    \* state.recognition: "null" or "engine"
    voiceEnabled,   \* state.voiceEnabled
    status,         \* statusIndicator.dataset.status
    copy,           \* statusCopy.textContent
    transcript,     \* children of conversationEl, in document order
    nodes,          \* number of message nodes created so far (node identity)
    intel,          \* children of intelEl: the notice board
    input,          \* input.value
    voiceToggle,    \* voiceToggle: disabled, title, class "active"
    store,          \* localStorage item "jarvis_history"
    inflight,       \* fetch calls sent and not yet resolved
    sent,           \* number of fetch calls made
    engine,         \* the speech recognition session of the host
    spoken,         \* the utterance last handed to speechSynthesis
    loaded,         \* whether the window load event has been handled
    host,           \* capabilities of the host: recognition, synth, storage
    voices,         \* speechSynthesis.getVoices()
    voice           \* the voice of the utterance last handed to speechSynthesis

vars == << history, isProcessing, recognition, voiceEnabled, status, copy,
           transcript, nodes, intel, input, voiceToggle, store, inflight,
           sent, engine, spoken, voice, loaded, host, voices >>

----------------------------------------------------------------------------
(* Bounds of the model *)

\* accepted submissions (fetch calls) in one behaviour
MaxSubmits == 2

(* Program constants *)

\* persistHistory keeps the last 20 entries
PersistWindow == 20

\* the request carries the last 12 entries
RequestWindow == 12

----------------------------------------------------------------------------
(* Texts *)

SP == " "

\* the three bullets shown while the request is out
PlaceholderContent == << "***" >>

FallbackReply == << "I'm here." >>

Apology ==
    << "Systems encountered turbulence processing that request. Review logs and try again." >>

\* what String(undefined) prints in a template literal
UndefinedText == << "undefined" >>

RECURSIVE TrimStart(_)
TrimStart(s) ==
    IF s # << >> /\ Head(s) = SP THEN TrimStart(Tail(s)) ELSE s

RECURSIVE TrimEnd(_)
TrimEnd(s) ==
    IF s # << >> /\ s[Len(s)] = SP THEN TrimEnd(SubSeq(s, 1, Len(s) - 1)) ELSE s

\* String.prototype.trim
Trim(s) == TrimEnd(TrimStart(s))

\* Array.prototype.slice(-n)
SliceLast(s, n) ==
    IF Len(s) <= n THEN s ELSE SubSeq(s, Len(s) - n + 1, Len(s))

----------------------------------------------------------------------------
(* Messages and the values a stored array can hold *)

Message(role, content) == [role |-> role, content |-> content]

\* the JSON value null as an array element
NullElem == [role |-> "null", content |-> << >>]

\* a JSON number as an array element: its role and content read as undefined
NumElem == [role |-> "undefined", content |-> UndefinedText]

\* the stored item: absent, the empty string, text that is no JSON, a JSON
\* value that is no array, or a JSON array of elements
Item(kind, elems) == [kind |-> kind, elems |-> elems]

\* JSON.stringify of an array of messages
JSONstringify(h) == Item("array", h)

\* whether JSON.parse throws on the stored text
ParseThrows(item) == item.kind = "garbage"

\* JSON.parse where it returns: the array, or a value that is no array
IsArray(item) == item.kind = "array"

----------------------------------------------------------------------------
(* Status line *)

\* updateStatus
UpdateStatus(st, text) == [status |-> st, copy |-> text]

----------------------------------------------------------------------------
(* Transcript *)

\* whether the parameter destructuring of renderMessage throws on the value
RenderThrows(m) == m = NullElem

\* renderMessage: the node appended to conversationEl
RenderMessage(tr, n, m, speaking, processing) ==
    Append(tr, [id |-> n + 1,
                role |-> m.role,
                text |-> IF m.content = UndefinedText THEN << >> ELSE m.content,
                thinking |-> processing /\ m.role = "assistant" /\ speaking])

\* the placeholder left in place
KeepChild(tr, id) == tr

\* conversationEl.removeChild
RemoveChild(tr, id) == SelectSeq(tr, LAMBDA node : node.id # id)

\* pushIntel: an empty list leaves the board as it is
PushIntel(board, items) == IF items = << >> THEN board ELSE items

----------------------------------------------------------------------------
(* History store *)

\* Array.prototype.slice(0, n)
SliceFirst(s, n) == IF Len(s) <= n THEN s ELSE SubSeq(s, 1, n)

\* persistHistory keeping the first 20 entries
PersistOldest(h, item, storage) ==
    IF storage = "ok" THEN JSONstringify(SliceFirst(h, PersistWindow)) ELSE item

\* persistHistory: the item after the call; a throwing setItem is swallowed
PersistHistory(h, item, storage) ==
    IF storage = "ok" THEN JSONstringify(SliceLast(h, PersistWindow)) ELSE item

\* the speaker label of the restoration notice
Label(entry) == IF entry.role = "user" THEN "You" ELSE "Jarvis"

NoticeLine(entry) == << Label(entry), ": " >> \o entry.content

RestorationNotice(h) ==
    << << "Historical context restored." >>,
       << "Loaded ", ToString(Len(h)), " transmissions." >>,
       << "Jarvis is ready to continue the mission." >> >>
    \o [i \in 1..Len(SliceLast(h, 3)) |-> NoticeLine(SliceLast(h, 3)[i])]

\* restoreHistory without its forEach
ReplayNothing(tr, n, elems) == [transcript |-> tr, nodes |-> n, threw |-> FALSE]

\* state.history.forEach(renderMessage): the nodes rendered before a throw
RECURSIVE Replay(_, _, _)
Replay(tr, n, elems) ==
    IF elems = << >> THEN [transcript |-> tr, nodes |-> n, threw |-> FALSE]
    ELSE IF RenderThrows(Head(elems))
         THEN [transcript |-> tr, nodes |-> n, threw |-> TRUE]
         ELSE Replay(RenderMessage(tr, n, Head(elems), FALSE, FALSE),
                     n + 1, Tail(elems))

\* restoreHistory: history, transcript, node count and notice board after it
RestoreHistory(h, tr, n, board, item, storage) ==
    LET same == [history |-> h, transcript |-> tr, nodes |-> n, intel |-> board]
        parsed == IF IsArray(item) THEN item.elems ELSE << >>
        played == Replay(tr, n, parsed)
    IN  IF storage = "denied" THEN [same EXCEPT !.history = << >>]
        ELSE IF item.kind \in {"absent", "empty"} THEN same
        ELSE IF ParseThrows(item) THEN [same EXCEPT !.history = << >>]
        ELSE IF played.threw
             THEN [history |-> << >>, transcript |-> played.transcript,
                   nodes |-> played.nodes, intel |-> board]
             ELSE [history |-> parsed, transcript |-> played.transcript,
                   nodes |-> played.nodes,
                   intel |-> IF parsed # << >>
                             THEN PushIntel(board, RestorationNotice(parsed))
                             ELSE board]

----------------------------------------------------------------------------
(* Inputs *)

\* what the user can type into the command input
TypedTexts == { << >>, << SP >>, << SP, "a", SP >> }

\* the data-command strings of the quick-action buttons
QuickCommands == { << "q" >> }

\* what the speech engine can hear
Transcripts == { << SP >>, << "q", SP >> }

\* bodies the service can answer with a 2xx status
Data(reply, actions, intent, speak) ==
    [reply |-> reply, actions |-> actions, intent |-> intent, speak |-> speak]

Responses ==
    { Data(<< "r" >>, << << "n" >> >>, << "i" >>, TRUE),
      Data(<< >>, << >>, << >>, FALSE) }

\* the ways the remote call fails, with the message of the error thrown
Failures ==
    { [kind |-> "http", message |-> << "Request failed with status ", "500" >>],
      [kind |-> "network", message |-> << "Failed to fetch" >>],
      [kind |-> "badbody", message |-> << "Unexpected token" >>] }

\* the log a former session of PriorLen / ShortLen entries left in the store
PriorLen == 19

ShortLen == 3

PriorLog(n) ==
    [i \in 1..n |-> IF i % 2 = 1 THEN Message("user", << "a" >>)
                                 ELSE Message("assistant", << "r" >>)]

\* what the store can hold when the page opens
StoredItems ==
    { Item("absent", << >>), Item("empty", << >>), Item("garbage", << >>),
      Item("object", << >>),
      Item("array", << >>),
      Item("array", PriorLog(ShortLen)),
      Item("array", PriorLog(PriorLen)),
      Item("array", << Message("user", << "a" >>), NullElem >>),
      Item("array", << NumElem >>) }

\* a host with every capability, and the hosts that lack one: storage
\* "denied" throws on getItem and setItem
Host(recog, synth, storage) ==
    [recognition |-> recog, synth |-> synth, storage |-> storage]

\* voices a host can offer
Voice(name, lang) == [name |-> name, lang |-> lang]

\* utterance.voice when speak sets none
NoVoice == Voice(<< >>, << >>)

VoicePool ==
    { Voice(<< "Jarvis" >>, << "en-US" >>),
      Voice(<< "Microsoft", "Guy" >>, << "en-US" >>),
      Voice(<< "English", "en-US" >>, << "en-US" >>),
      Voice(<< "Daniel" >>, << "en-GB" >>),
      Voice(<< "Amelie" >>, << "fr-FR" >>) }

\* voices in a list, at most
MaxVoices == 2

\* the voice lists a host can offer
VoiceLists == UNION { [1..n -> VoicePool] : n \in 0..MaxVoices }

\* the voice list of the hosts of Hosts
Installed ==
    << Voice(<< "Daniel" >>, << "en-GB" >>),
       Voice(<< "Microsoft", "Guy" >>, << "en-US" >>) >>

Hosts ==
    { Host(TRUE, TRUE, "ok"), Host(FALSE, TRUE, "ok"), Host(TRUE, FALSE, "ok"),
      Host(TRUE, TRUE, "denied") }

\* the pages that can open: every stored item on the full host, and the
\* other hosts with an empty store or a short log
Openings ==
    { << h, item >> \in Hosts \X StoredItems :
        \/ h = Host(TRUE, TRUE, "ok")
        \/ item \in { Item("absent", << >>), Item("array", PriorLog(ShortLen)) } }

----------------------------------------------------------------------------
(* Initial state: the script has run, no event has been handled *)

NotSupportedTitle == "Voice recognition not supported in this browser."

RequiresTitle == "Voice recognition requires Chrome or Edge desktop."

Boot ==
    /\ history = << >>
    /\ isProcessing = FALSE
    /\ recognition = "null"
    /\ voiceEnabled = FALSE
    /\ status = "idle"
    /\ copy = << "Systems Idle" >>
    /\ transcript = << >>
    /\ nodes = 0
    /\ intel = << >>
    /\ input = << >>
    /\ voiceToggle = [disabled |-> FALSE, title |-> "", active |-> FALSE]
    /\ \E opening \in Openings : host = opening[1] /\ store = opening[2]
    /\ inflight = << >>
    /\ sent = 0
    /\ engine = "idle"
    /\ spoken = << >>
    /\ loaded = FALSE
    /\ voice = NoVoice

Init == Boot /\ voices = Installed

----------------------------------------------------------------------------
(* sendCommand up to its first await *)

\* the guard without its in-flight test
AcceptsWhileProcessing(message, processing) ==
    /\ message # << >>
    /\ Trim(message) # << >>

\* the guard of sendCommand: a non-empty message, none in flight, and a
\* non-empty trimmed text
Accepts(message, processing) ==
    /\ message # << >>
    /\ ~processing
    /\ Trim(message) # << >>

\* the body of the fetch call with the first 12 entries
RequestOldest(trimmed, h, placeholder) ==
    [message |-> trimmed, history |-> SliceFirst(h, RequestWindow),
     placeholder |-> placeholder]

\* the body of the fetch call
Request(trimmed, h, placeholder) ==
    [message |-> trimmed, history |-> SliceLast(h, RequestWindow),
     placeholder |-> placeholder]

\* the form's submit handler with input.value = message
SendCommand(message) ==
    IF Accepts(message, isProcessing)
    THEN LET trimmed == Trim(message)
             userPayload == Message("user", trimmed)
             h == Append(history, userPayload)
             shown == RenderMessage(transcript, nodes, userPayload, FALSE, TRUE)
             placed == RenderMessage(shown, nodes + 1,
                           Message("assistant", PlaceholderContent), TRUE, TRUE)
         IN  /\ sent < MaxSubmits
             /\ isProcessing' = TRUE
             /\ status' = UpdateStatus("thinking", << "Processing" >>).status
             /\ copy' = UpdateStatus("thinking", << "Processing" >>).copy
             /\ history' = h
             /\ store' = PersistHistory(h, store, host.storage)
             /\ input' = << >>
             /\ transcript' = placed
             /\ nodes' = nodes + 2
             /\ inflight' = Append(inflight, Request(trimmed, h, nodes + 2))
             /\ sent' = sent + 1
    ELSE /\ input' = message
         /\ UNCHANGED << isProcessing, status, copy, history, store,
                         transcript, nodes, inflight, sent >>

\* the user submits the form with the text typed
Submit ==
    \E message \in TypedTexts :
        /\ SendCommand(message)
        /\ UNCHANGED << recognition, voiceEnabled, intel, voiceToggle, engine,
                        spoken, voice, loaded, host, voices >>

\* a quick-action button fills the input and submits the form
QuickAction ==
    \E command \in QuickCommands :
        /\ SendCommand(command)
        /\ UNCHANGED << recognition, voiceEnabled, intel, voiceToggle, engine,
                        spoken, voice, loaded, host, voices >>

----------------------------------------------------------------------------
(* sendCommand after the remote call *)

\* the patterns of preferredVoices, in the order of the array
PreferredVoices == << "jarvis", "brian", "matthew", "guy", "en-us" >>

\* the lower-case form of the words voices are named with
Lower(word) ==
    CASE word = "Jarvis" -> "jarvis"
      [] word = "Guy" -> "guy"
      [] word = "en-US" -> "en-us"
      [] word = "en-GB" -> "en-gb"
      [] OTHER -> word

\* a case-insensitive pattern of one word tested on a text
Test(pattern, text) == \E k \in 1..Len(text) : Lower(text[k]) = pattern

\* whether some pattern of preferredVoices matches the voice's name
Preferred(v) ==
    \E p \in 1..Len(PreferredVoices) : Test(PreferredVoices[p], v.name)

\* whether /en-GB/i matches the voice's lang
British(v) == Test("en-gb", v.lang)

\* Array.prototype.find as an index, on the callback's result for each
\* element in order: the first element that passes, or 0
Find(passes) ==
    IF \E k \in 1..Len(passes) : passes[k]
    THEN CHOOSE k \in 1..Len(passes) :
            passes[k] /\ \A j \in 1..(k - 1) : ~passes[j]
    ELSE 0

\* the callback of line 68 on each voice of the list
PreferredIn(list) == [k \in 1..Len(list) |-> Preferred(list[k])]

\* the callback of line 69 on each voice of the list
BritishIn(list) == [k \in 1..Len(list) |-> British(list[k])]

\* speak: the voice it gives the utterance
SelectVoice(list) ==
    IF Find(PreferredIn(list)) # 0 THEN list[Find(PreferredIn(list))]
    ELSE IF Find(BritishIn(list)) # 0 THEN list[Find(BritishIn(list))]
    ELSE IF list # << >> THEN list[1]
    ELSE NoVoice

\* speak: nothing without speechSynthesis, else the new utterance replaces
\* the one being spoken
Speak(text, utterance, synth) == IF synth THEN text ELSE utterance

\* data.reply || "I'm here."
AssistantPayload(data) ==
    Message("assistant", IF data.reply # << >> THEN data.reply ELSE FallbackReply)

\* the status line at the end of the try block
IntentCopy(st, data) ==
    IF data.intent # << >>
    THEN [st EXCEPT !.copy = << "Intent: " >> \o data.intent]
    ELSE st

\* the finally block without its voice test
FinallyIdle(enabled) == UpdateStatus("idle", << "Systems Idle" >>)

\* the finally block
Finally(enabled) ==
    IF enabled THEN UpdateStatus("thinking", << "Listening" >>)
               ELSE UpdateStatus("idle", << "Systems Idle" >>)

Without(s, i) == SubSeq(s, 1, i - 1) \o SubSeq(s, i + 1, Len(s))

\* the response is ok and its body parses: try block, then finally
ResolveOk(i, data) ==
    LET r == inflight[i]
        assistantPayload == AssistantPayload(data)
        h == Append(history, assistantPayload)
        afterTry == IntentCopy(UpdateStatus(status, copy), data)
        final == Finally(voiceEnabled)
    IN  /\ history' = h
        /\ transcript' = RenderMessage(RemoveChild(transcript, r.placeholder),
                                       nodes, assistantPayload, FALSE, TRUE)
        /\ nodes' = nodes + 1
        /\ store' = PersistHistory(h, store, host.storage)
        /\ intel' = PushIntel(intel, data.actions)
        /\ spoken' = IF data.speak
                     THEN Speak(assistantPayload.content, spoken, host.synth)
                     ELSE spoken
        /\ voice' = IF data.speak /\ host.synth THEN SelectVoice(voices) ELSE voice
        /\ isProcessing' = FALSE
        /\ status' = final.status
        /\ copy' = final.copy
        /\ inflight' = Without(inflight, i)

\* the catch block with isProcessing reset in the try block only
ResolveErrorStuck(i, failure) ==
    LET r == inflight[i]
    IN  /\ history' = history
        /\ transcript' = RenderMessage(RemoveChild(transcript, r.placeholder),
                                       nodes, Message("assistant", Apology),
                                       FALSE, TRUE)
        /\ nodes' = nodes + 1
        /\ store' = store
        /\ intel' = PushIntel(intel, << << "Error encountered." >>, failure.message >>)
        /\ spoken' = spoken
        /\ voice' = voice
        /\ isProcessing' = isProcessing
        /\ status' = status
        /\ copy' = copy
        /\ inflight' = Without(inflight, i)

\* fetch rejects, the status is not 2xx or the body does not parse: catch
\* block, then finally
ResolveError(i, failure) ==
    LET r == inflight[i]
        final == Finally(voiceEnabled)
    IN  /\ history' = history
        /\ transcript' = RenderMessage(RemoveChild(transcript, r.placeholder),
                                       nodes, Message("assistant", Apology),
                                       FALSE, TRUE)
        /\ nodes' = nodes + 1
        /\ store' = store
        /\ intel' = PushIntel(intel, << << "Error encountered." >>, failure.message >>)
        /\ spoken' = spoken
        /\ voice' = voice
        /\ isProcessing' = FALSE
        /\ status' = final.status
        /\ copy' = final.copy
        /\ inflight' = Without(inflight, i)

\* the remote call of a request in flight resolves
Resolve ==
    \E i \in 1..Len(inflight) :
        /\ \/ \E data \in Responses : ResolveOk(i, data)
           \/ \E failure \in Failures : ResolveError(i, failure)
        /\ UNCHANGED << recognition, voiceEnabled, input, voiceToggle, sent,
                        engine, loaded, host, voices >>

----------------------------------------------------------------------------
(* Voice input *)

\* recognition.stop(): a session that is starting or listening winds down
Stop(session) == IF session \in {"starting", "listening"} THEN "ending" ELSE session

\* the toggle without its capability test
SupportsAnyHost(h) == TRUE

\* "webkitSpeechRecognition" in window || "SpeechRecognition" in window
Supports(h) == h.recognition

\* the click handler with the status set when it starts the engine
ToggleOptimistic ==
    /\ IF ~Supports(host)
       THEN /\ voiceToggle' = [voiceToggle EXCEPT !.disabled = TRUE,
                                                  !.title = NotSupportedTitle]
            /\ UNCHANGED << recognition, voiceEnabled, engine, status, copy >>
       ELSE /\ recognition' = "engine"
            /\ IF voiceEnabled
               THEN /\ engine' = Stop(engine)
                    /\ voiceEnabled' = FALSE
                    /\ voiceToggle' = [voiceToggle EXCEPT !.active = FALSE]
                    /\ status' = UpdateStatus("idle", << "Voice Link Offline" >>).status
                    /\ copy' = UpdateStatus("idle", << "Voice Link Offline" >>).copy
               ELSE /\ engine' = IF engine = "idle" THEN "starting" ELSE engine
                    /\ voiceEnabled' = (engine = "idle")
                    /\ status' = UpdateStatus("thinking", << "Listening" >>).status
                    /\ copy' = UpdateStatus("thinking", << "Listening" >>).copy
                    /\ UNCHANGED voiceToggle
    /\ UNCHANGED << history, isProcessing, transcript, nodes, intel, input,
                    store, inflight, sent, spoken, voice, loaded, host, voices >>

\* voiceToggle's click handler
ToggleVoiceInput ==
    /\ IF ~Supports(host)
       THEN /\ voiceToggle' = [voiceToggle EXCEPT !.disabled = TRUE,
                                                  !.title = NotSupportedTitle]
            /\ UNCHANGED << recognition, voiceEnabled, engine, status, copy >>
       ELSE /\ recognition' = "engine"
            /\ IF voiceEnabled
               THEN /\ engine' = Stop(engine)
                    /\ voiceEnabled' = FALSE
                    /\ voiceToggle' = [voiceToggle EXCEPT !.active = FALSE]
                    /\ status' = UpdateStatus("idle", << "Voice Link Offline" >>).status
                    /\ copy' = UpdateStatus("idle", << "Voice Link Offline" >>).copy
               ELSE \* start() throws on a session that has not ended yet
                    /\ engine' = IF engine = "idle" THEN "starting" ELSE engine
                    /\ voiceEnabled' = (engine = "idle")
                    /\ UNCHANGED << voiceToggle, status, copy >>
    /\ UNCHANGED << history, isProcessing, transcript, nodes, intel, input,
                    store, inflight, sent, spoken, voice, loaded, host, voices >>

\* recognition.onstart
OnStart ==
    /\ engine = "starting"
    /\ engine' = "listening"
    /\ voiceToggle' = [voiceToggle EXCEPT !.active = TRUE]
    /\ status' = UpdateStatus("thinking", << "Listening" >>).status
    /\ copy' = UpdateStatus("thinking", << "Listening" >>).copy
    /\ UNCHANGED << history, isProcessing, recognition, voiceEnabled,
                    transcript, nodes, intel, input, store, inflight, sent,
                    spoken, voice, loaded, host, voices >>

\* recognition.onresult: the session ends after its one result
OnResult ==
    \E heard \in Transcripts :
        /\ engine = "listening"
        /\ engine' = "ending"
        /\ IF Trim(heard) # << >>
           THEN SendCommand(Trim(heard))
           ELSE UNCHANGED << input, isProcessing, status, copy, history, store,
                             transcript, nodes, inflight, sent >>
        /\ UNCHANGED << recognition, voiceEnabled, intel, voiceToggle, spoken, voice,
                        loaded, host, voices >>

\* what onend and onerror do alike
SessionOver ==
    /\ voiceToggle' = [voiceToggle EXCEPT !.active = FALSE]
    /\ status' = IF ~isProcessing
                 THEN UpdateStatus("idle", << "Systems Idle" >>).status ELSE status
    /\ copy' = IF ~isProcessing
               THEN UpdateStatus("idle", << "Systems Idle" >>).copy ELSE copy
    /\ UNCHANGED << history, isProcessing, recognition, voiceEnabled,
                    transcript, nodes, intel, input, store, inflight, sent,
                    spoken, voice, loaded, host, voices >>

\* recognition.onerror: the engine reports an error; its end event follows
OnError ==
    /\ engine \in {"starting", "listening"}
    /\ engine' = "ending"
    /\ SessionOver

\* recognition.onend: the engine ends the session
OnEnd ==
    /\ engine \in {"listening", "ending"}
    /\ engine' = "idle"
    /\ SessionOver

----------------------------------------------------------------------------
(* Page load *)

\* the window's load handler
Load ==
    LET restored == RestoreHistory(history, transcript, nodes, intel, store,
                                   host.storage)
    IN  /\ ~loaded
        /\ loaded' = TRUE
        /\ history' = restored.history
        /\ transcript' = restored.transcript
        /\ nodes' = restored.nodes
        /\ intel' = IF ~host.synth
                    THEN PushIntel(restored.intel,
                           << << "Speech synthesis unavailable on this device." >> >>)
                    ELSE restored.intel
        /\ voiceToggle' = IF ~host.recognition
                          THEN [voiceToggle EXCEPT !.disabled = TRUE,
                                                   !.title = RequiresTitle]
                          ELSE voiceToggle
        /\ UNCHANGED << isProcessing, recognition, voiceEnabled, status, copy,
                        input, store, inflight, sent, engine, spoken, voice,
                        host, voices >>

----------------------------------------------------------------------------

Next ==
    \/ Submit
    \/ QuickAction
    \/ Resolve
    \/ ToggleVoiceInput
    \/ OnStart
    \/ OnResult
    \/ OnError
    \/ OnEnd
    \/ Load

Spec == Init /\ [][Next]_vars

----------------------------------------------------------------------------
(* Claims *)

Min(a, b) == IF a <= b THEN a ELSE b

ArrayOf(item) == IF item.kind = "array" THEN item.elems ELSE << >>

\* a step that completes a request: isProcessing falls
Completes == isProcessing /\ ~isProcessing'

\* C1: at most one remote request is outstanding in every reachable state,
\* and a submission (typed, quick action or voice transcript) handled while
\* a request is in flight sends nothing, appends nothing to the history,
\* writes nothing to the store and renders nothing.
C1_SingleInFlight ==
    /\ [](Len(inflight) <= 1)
    /\ [][ (isProcessing /\ (Submit \/ QuickAction \/ OnResult))
           => UNCHANGED << inflight, sent, history, store, transcript >> ]_vars

\* a command was submitted while a request was out, and was dropped
C1_Witness ==
    /\ isProcessing
    /\ Len(inflight) = 1
    /\ Trim(input) # << >>

\* C2: whenever the handlers push to the history on a host whose store
\* takes writes, and whenever the stored item changes, the stored item is an
\* array of min(20, n) entries, the last entries of the history of length n
\* in their order.
C2_BoundedHistory ==
    [][ ( \/ store' # store
          \/ (history' # history /\ loaded' = loaded /\ host.storage = "ok") )
        => LET n == Len(history')
               kept == ArrayOf(store')
           IN  /\ store'.kind = "array"
               /\ Len(kept) <= PersistWindow
               /\ Len(kept) = Min(PersistWindow, n)
               /\ \A k \in 1..Len(kept) : kept[k] = history'[n - Len(kept) + k] ]_vars

\* the history has outgrown the window and the store holds the last 20
C2_Witness ==
    /\ sent > 0
    /\ Len(history) > PersistWindow
    /\ store.kind = "array"
    /\ Len(store.elems) = PersistWindow
    /\ store.elems[PersistWindow] = history[Len(history)]

\* C3 (as claimed): when the remote call of an accepted submission fails,
\* the history after the completion is the history the request was sent
\* from (whose last 12 entries are the request's history field, ending in
\* the user message) with nothing added and nothing lost, and the apology
\* is neither in the history nor in the store.
C3_FailureAddsUserTurnOnly ==
    [][ \A i \in 1..Len(inflight) : \A failure \in Failures :
          ResolveError(i, failure)
          => LET r == inflight[i]
                 n == Len(r.history)
                 m == Len(history')
             IN  /\ m >= n
                 /\ SliceLast(history', n) = r.history
                 /\ n < RequestWindow => m = n
                 /\ history'[m] = Message("user", r.message)
                 /\ \A k \in 1..m : history'[k].content # Apology
                 /\ \A k \in 1..Len(ArrayOf(store')) :
                        ArrayOf(store')[k].content # Apology ]_vars

\* the nodes of the transcript that show the placeholder
Placeholders == { k \in 1..Len(transcript) : transcript[k].thinking }

\* C4: no entry of the history or of the stored array has the placeholder
\* content; the transcript shows one placeholder node for each request in
\* flight, the node that request holds, and none once no request is in
\* flight.
C4_PlaceholderNeverPersisted ==
    /\ \A k \in 1..Len(history) : history[k].content # PlaceholderContent
    /\ \A k \in 1..Len(ArrayOf(store)) :
           ArrayOf(store)[k].content # PlaceholderContent
    /\ { transcript[k].id : k \in Placeholders }
           = { inflight[i].placeholder : i \in 1..Len(inflight) }
    /\ Cardinality(Placeholders) = Len(inflight)
    /\ ~isProcessing => Placeholders = { }

\* a submission has succeeded and one has failed: reply and apology are in
\* the transcript and the placeholders are gone
C4_Witness ==
    /\ ~isProcessing
    /\ sent >= 2
    /\ \E k \in 1..Len(transcript) : transcript[k].text = Apology
    /\ \E k \in 1..Len(history) : history[k] = Message("assistant", << "r" >>)
    /\ Placeholders = { }

C6_ThinkingWhileInFlight == isProcessing => status = "thinking"

\* C7 (as claimed): when a request completes with a response that carries
\* an intent label, the status line reads "Intent: " followed by the label.
C7_IntentOnStatusLine ==
    [][ \A i \in 1..Len(inflight) : \A data \in Responses :
          (data.intent # << >> /\ ResolveOk(i, data))
          => copy' = << "Intent: " >> \o data.intent ]_vars

\* C8 (as claimed): when the engine ends its session or reports an error,
\* state.voiceEnabled is false afterwards.
C8_SessionReconciled == [][ (OnEnd \/ OnError) => ~voiceEnabled' ]_vars

\* C9: on a host without speech recognition no engine is ever created or
\* started and voiceEnabled stays false; a toggle disables the control and
\* leaves the status as it is; the control, once disabled, stays disabled.
C9_UnsupportedVoice ==
    /\ [](~host.recognition
            => recognition = "null" /\ ~voiceEnabled /\ engine = "idle")
    /\ [][ (~host.recognition /\ ToggleVoiceInput)
           => /\ voiceToggle'.disabled
              /\ voiceToggle'.title = NotSupportedTitle
              /\ UNCHANGED << status, copy, recognition, voiceEnabled >> ]_vars
    /\ [][ voiceToggle.disabled => voiceToggle'.disabled ]_vars

\* the control was toggled on a host without speech recognition
C9_Witness ==
    /\ ~host.recognition
    /\ voiceToggle.disabled
    /\ voiceToggle.title = NotSupportedTitle

\* a stored item that is present and no array of {role, content} records
Malformed(item) ==
    \/ item.kind \in {"garbage", "object"}
    \/ /\ item.kind = "array"
       /\ \E k \in 1..Len(item.elems) : item.elems[k].role \notin {"user", "assistant"}

\* C10 (as claimed): restoring from a malformed stored item leaves the
\* history empty, renders nothing and puts no restoration notice on the
\* board.
C10_FailSafeRestore ==
    [][ (Load /\ host.storage = "ok" /\ Malformed(store))
        => /\ history' = << >>
           /\ transcript' = transcript
           /\ \A k \in 1..Len(intel') :
                  intel'[k] # << "Historical context restored." >> ]_vars

\* an array as persistHistory writes it: {role, content} records only
WellFormed(elems) ==
    \A k \in 1..Len(elems) : elems[k].role \in {"user", "assistant"}

\* C11: restoring from a stored array of messages makes the history that
\* array and appends one node for each of its messages to the transcript,
\* in the array's order; from the empty array the history is empty, nothing
\* is rendered and no restoration notice is put on the board.
C11_RoundTrip ==
    [][ (Load /\ host.storage = "ok" /\ store.kind = "array"
              /\ WellFormed(store.elems))
        => LET kept == store.elems
           IN  /\ history' = kept
               /\ transcript' = transcript \o
                     [k \in 1..Len(kept) |->
                         [id |-> nodes + k, role |-> kept[k].role,
                          text |-> kept[k].content, thinking |-> FALSE]]
               /\ kept = << >>
                  => /\ history' = << >>
                     /\ transcript' = transcript
                     /\ \A k \in 1..Len(intel') :
                            intel'[k] # << "Historical context restored." >> ]_vars

\* the page loaded after a first submission: the history is the array that
\* submission stored, and its message was rendered a second time
C11_Witness ==
    /\ loaded
    /\ isProcessing
    /\ sent = 1
    /\ store.kind = "array"
    /\ history = store.elems
    /\ Len(history) = 1
    /\ Len(transcript) = 3
    /\ transcript[3].role = "user"
    /\ transcript[3].text = history[1].content

\* the page of a full host with an empty store
InitLive ==
    /\ Init
    /\ host = Host(TRUE, TRUE, "ok")
    /\ store = Item("absent", << >>)

\* the remote call of a request in flight resolves in the end, and the
\* continuation of sendCommand then runs
LiveSpec == InitLive /\ [][Next]_vars /\ WF_vars(Resolve)

\* the commands a user can submit that are not blank
Commands == { m \in TypedTexts \cup QuickCommands : Trim(m) # << >> }

\* C12: every resolution of the remote call, success or failure, ends with
\* isProcessing false and the guard of sendCommand open to every non-blank
\* command; so, the call resolving, a state in flight leads to a state not
\* in flight that accepts a new command.
C12_Recovery ==
    /\ [][ Resolve
           => /\ ~isProcessing'
              /\ \A m \in Commands : Accepts(m, isProcessing') ]_vars
    /\ isProcessing ~> (~isProcessing /\ \A m \in Commands : Accepts(m, isProcessing))

\* a command was accepted after a failed one: its line follows the apology
C12_Witness ==
    /\ sent = 2
    /\ \E k \in 1..(Len(transcript) - 1) :
          /\ transcript[k].text = Apology
          /\ transcript[k + 1].role = "user"

\* the page of a full host with an empty store and any list of voices
InitVoice ==
    /\ Boot
    /\ host = Host(TRUE, TRUE, "ok")
    /\ store = Item("absent", << >>)
    /\ voices \in VoiceLists

\* commands are sent and answered, and the replies spoken
NextVoice == QuickAction \/ Resolve

SpecVoice == InitVoice /\ [][NextVoice]_vars

\* the first voice whose name the p-th pattern matches, as an index, or 0
FirstNamed(list, p) ==
    Find([k \in 1..Len(list) |-> Test(PreferredVoices[p], list[k].name)])

\* the voice the claim describes: the first voice of the earliest pattern
\* that matches any, else a British voice, else the first voice, else none
PriorityVoice(list) ==
    LET matching == { p \in 1..Len(PreferredVoices) : FirstNamed(list, p) # 0 }
        earliest == CHOOSE p \in matching : \A q \in matching : p <= q
    IN  IF matching # { } THEN list[FirstNamed(list, earliest)]
        ELSE IF Find(BritishIn(list)) # 0 THEN list[Find(BritishIn(list))]
        ELSE IF list # << >> THEN list[1]
        ELSE NoVoice

\* C13 (as claimed): the voice of a spoken utterance is the voice matching
\* the earliest pattern of the preference list, wherever it stands in the
\* voice list, with the fallbacks to a British voice, the first voice, none.
C13_VoicePriority == spoken # << >> => voice = PriorityVoice(voices)

\* a toggle step that starts the engine
Starts == ToggleVoiceInput /\ ~voiceEnabled /\ voiceEnabled'

C15_RequestContext ==
    [][ Len(inflight') > Len(inflight)
        => LET r == inflight'[Len(inflight')]
               n == Len(history')
               w == Len(r.history)
           IN  /\ history' = Append(history, Message("user", r.message))
               /\ w = Min(RequestWindow, n)
               /\ w <= RequestWindow
               /\ \A k \in 1..w : r.history[k] = history'[n - w + k]
               /\ r.history[w] = Message("user", r.message) ]_vars

\* a request sent from a history longer than the window
C15_Witness ==
    /\ Len(inflight) = 1
    /\ Len(history) > RequestWindow
    /\ Len(inflight[1].history) = RequestWindow
    /\ inflight[1].history[RequestWindow] = history[Len(history)]
    /\ history[Len(history)] = Message("user", inflight[1].message)

\* C16 (as claimed): when the remote call of an accepted submission
\* succeeds, the history after the completion is the history the request
\* was sent from (whose last 12 entries are the request's history field)
\* followed by the assistant message, and the transcript ends with the
\* user's node of that submission and the reply's node, no placeholder
\* left.
C16_SuccessCommit ==
    [][ \A i \in 1..Len(inflight) : \A data \in Responses :
          ResolveOk(i, data)
          => LET r == inflight[i]
                 n == Len(r.history)
                 m == Len(history')
                 t == Len(transcript')
             IN  /\ m >= n + 1
                 /\ history'[m] = AssistantPayload(data)
                 /\ SliceLast(SubSeq(history', 1, m - 1), n) = r.history
                 /\ n < RequestWindow => m = n + 1
                 /\ t >= 2
                 /\ transcript'[t - 1].id = r.placeholder - 1
                 /\ transcript'[t - 1].text = r.message
                 /\ transcript'[t].text = AssistantPayload(data).content
                 /\ \A k \in 1..t : ~transcript'[k].thinking ]_vars

\* C17 (as claimed): a submission is accepted only after the load event was
\* handled; the stored item does not change before the load event is
\* handled; the history is empty when restoreHistory runs.
C17_RestoreBeforeSubmit ==
    [][ /\ sent' > sent => loaded
        /\ ~loaded' => store' = store
        /\ Load => history = << >> ]_vars

\* C18 (as claimed): while a request is outstanding, the last entry of the
\* history is the user message of that request, and on a host whose store
\* takes writes it is the last entry of the stored array too.
C18_UserTurnDurable ==
    \A i \in 1..Len(inflight) :
        LET sentMessage == Message("user", inflight[i].message)
        IN  /\ history # << >>
            /\ history[Len(history)] = sentMessage
            /\ host.storage = "ok"
               => /\ store.kind = "array"
                  /\ store.elems # << >>
                  /\ store.elems[Len(store.elems)] = sentMessage

\* C19 (as claimed): with no request in flight, a status line that reads
\* "Listening" means the engine's session has started and not ended.
C19_ListeningTruthful ==
    (~isProcessing /\ copy = << "Listening" >>) => engine # "idle"

====
